---- MODULE Spec2Model ----
(***************************************************************************)
(* A model of fruitbox::GameState (src/src/Game/GameState.h, .cpp): the    *)
(* round / grid / score manager of one game session.                       *)
(*                                                                         *)
(* Numbers.  TLC's integers are 32-bit signed, so the two fixed-width      *)
(* unsigned types of the program are kept as tuples of 16-bit limbs:       *)
(*   - a 32-bit word of std::mt19937 is <<hi, lo>>;                        *)
(*   - a std::size_t score or delta (64 bits) is <<l0, l1, l2, l3>>,       *)
(*     least significant limb first, added modulo 2^64.                    *)
(* The round counters and the cell values never leave a small range and    *)
(* are plain naturals.                                                     *)
(***************************************************************************)
EXTENDS Integers, Sequences, FiniteSets, TLC

(***************************************************************************)
(* 16-bit limb arithmetic                                                  *)
(***************************************************************************)
RECURSIVE XorBits(_, _, _)
XorBits(a, b, n) ==
  IF n = 0 THEN 0
  ELSE ((a + b) % 2) + 2 * XorBits(a \div 2, b \div 2, n - 1)

RECURSIVE AndBits(_, _, _)
AndBits(a, b, n) ==
  IF n = 0 THEN 0
  ELSE ((a % 2) * (b % 2)) + 2 * AndBits(a \div 2, b \div 2, n - 1)

\* Byte tables: entry 256*a + b + 1 holds a ^ b, respectively a & b.
\* (Concatenation with <<>> makes each an explicit tuple, built once.)
Xor8 == [i \in 1..65536 |-> XorBits((i - 1) \div 256, (i - 1) % 256, 8)] \o <<>>
And8 == [i \in 1..65536 |-> AndBits((i - 1) \div 256, (i - 1) % 256, 8)] \o <<>>

Xor16(a, b) ==
    Xor8[256 * (a \div 256) + (b \div 256) + 1] * 256
  + Xor8[256 * (a % 256) + (b % 256) + 1]

And16(a, b) ==
    And8[256 * (a \div 256) + (b \div 256) + 1] * 256
  + And8[256 * (a % 256) + (b % 256) + 1]

(***************************************************************************)
(* 32-bit words <<hi, lo>> (the result_type of std::mt19937)               *)
(***************************************************************************)
W32(hi, lo) == <<hi, lo>>

Xor32(u, v) == <<Xor16(u[1], v[1]), Xor16(u[2], v[2])>>
And32(u, v) == <<And16(u[1], v[1]), And16(u[2], v[2])>>

Pow2Table ==
  <<1, 2, 4, 8, 16, 32, 64, 128, 256, 512, 1024, 2048, 4096, 8192, 16384,
    32768, 65536>>
Pow2(k) == Pow2Table[k + 1]

\* u >> k, 0 <= k < 32
Shr32(u, k) ==
  IF k >= 16 THEN <<0, u[1] \div Pow2(k - 16)>>
  ELSE <<u[1] \div Pow2(k),
         (u[2] \div Pow2(k)) + (u[1] % Pow2(k)) * Pow2(16 - k)>>

\* (u << k) mod 2^32, 0 <= k < 32
Shl32(u, k) ==
  IF k >= 16 THEN <<(u[2] % Pow2(32 - k)) * Pow2(k - 16), 0>>
  ELSE <<(u[1] % Pow2(16 - k)) * Pow2(k) + (u[2] \div Pow2(16 - k)),
         (u[2] % Pow2(16 - k)) * Pow2(k)>>

\* a * b for 16-bit a, b, as the 32-bit word <<hi, lo>>
Mul16(a, b) ==
  LET t0 == a * (b % 256)
      t1 == a * (b \div 256)
      s  == t0 + (t1 % 256) * 256
  IN  <<(t1 \div 256) + (s \div 65536), s % 65536>>

\* (u * v) mod 2^32
Mul32(u, v) ==
  LET ll == Mul16(u[2], v[2])
      hl == Mul16(u[1], v[2])
      lh == Mul16(u[2], v[1])
  IN  <<(ll[1] + hl[2] + lh[2]) % 65536, ll[2]>>

\* (u + n) mod 2^32 for a natural n < 2^16
Add32(u, n) ==
  LET s == u[2] + n
  IN  <<(u[1] + (s \div 65536)) % 65536, s % 65536>>

(***************************************************************************)
(* std::mt19937 (GameState.h: rng_), the generator InitRound draws from.   *)
(* Parameters of mersenne_twister_engine<uint32, 32, 624, 397, 31,         *)
(* 0x9908b0df, 11, 0xffffffff, 7, 0x9d2c5680, 15, 0xefc60000, 18,          *)
(* 1812433253>.  The state is [x |-> the 624 words, p |-> next index].     *)
(***************************************************************************)
MT_N == 624
MT_M == 397
MT_A == W32(39176, 45279)       \* 0x9908b0df
MT_D == W32(65535, 65535)       \* 0xffffffff
MT_B == W32(40236, 22144)       \* 0x9d2c5680
MT_C == W32(61382, 0)           \* 0xefc60000
MT_F == W32(27655, 35173)       \* 1812433253 = 0x6c078965

\* x[i] = f * (x[i-1] ^ (x[i-1] >> 30)) + i  (mod 2^32), appended to the
\* words x[0] .. x[i-1]
MTSeedWord(xs) ==
  Append(xs, Add32(Mul32(Xor32(xs[Len(xs)], Shr32(xs[Len(xs)], 30)), MT_F),
                   Len(xs)))

\* The seeding loop, for (i = Len(xs); i < hi; ++i).  The range is halved, and
\* the first half computed before the second is entered, to keep the
\* evaluation shallow.
RECURSIVE MTSeedFill(_, _)
MTSeedFill(xs, hi) ==
  IF hi <= Len(xs) THEN xs
  ELSE IF hi = Len(xs) + 1 THEN MTSeedWord(xs)
  ELSE MTSeedFill(MTSeedFill(xs, (Len(xs) + hi) \div 2), hi)

\* rng_.seed(sd) for a seed sd < 2^16
MTSeed(sd) == [x |-> MTSeedFill(<<W32(0, sd)>>, MT_N), p |-> MT_N]

\* One step of the regeneration loop: with y = (x[k] & upper) | (x[k+1] & lower),
\* the new word is x[k+m] ^ (y >> 1) ^ ((y & 1) ? a : 0).
MTTwistWord(xk, xk1, xkm) ==
  LET y == <<(xk[1] - (xk[1] % 32768)) + (xk1[1] % 32768), xk1[2]>>
  IN  Xor32(Xor32(xkm, Shr32(y, 1)), IF y[2] % 2 = 1 THEN MT_A ELSE W32(0, 0))

\* The new words lo .. lo+len-1 (0-based), where far[k] is the word that
\* x[(lo + k - 1 + m) mod n] holds when the loop reaches it.
MTTwistRun(x, far, lo, len) ==
  [k \in 1..len |-> MTTwistWord(x[lo + k], x[lo + k + 1], far[k])] \o <<>>

\* The regeneration of all n words.  The loop runs k = 0 .. n-1 in place, so
\* word k mixes x[k], x[k+1] and x[(k+m) mod n], of which x[k+m-n] (for
\* k >= n-m) and x[0] (for k = n-1) are already the new words.  With
\* h = n - m the new words are computed in index order in three runs:
\* a = [0, h) from the old words, b = [h, 2h) from a, and [2h, n) from b,
\* the last word of which reads the new x[0].
MTGenRandC(x, a, b) ==
  a \o b \o MTTwistRun(Append(x, a[1]), b, 2 * (MT_N - MT_M),
                       MT_N - 2 * (MT_N - MT_M))

MTGenRandB(x, a) ==
  MTGenRandC(x, a, MTTwistRun(x, a, MT_N - MT_M, MT_N - MT_M))

MTGenRand(x) ==
  MTGenRandB(x, MTTwistRun(x, SubSeq(x, MT_M + 1, MT_N), 0, MT_N - MT_M))

\* z ^= (z >> k) & mask and z ^= (z << k) & mask
MTTemperRight(z, k, mask) == Xor32(z, And32(Shr32(z, k), mask))
MTTemperLeft(z, k, mask) == Xor32(z, And32(Shl32(z, k), mask))

\* The tempering: shifts u = 11 (mask d), s = 7 (mask b), t = 15 (mask c) and
\* l = 18 (no mask, which is the mask of all ones).
MTTemper(x) ==
  MTTemperRight(
    MTTemperLeft(MTTemperLeft(MTTemperRight(x, 11, MT_D), 7, MT_B), 15, MT_C),
    18, MT_D)

\* The draw from a generator r that has a word left
MTTake(r) ==
  [rng |-> [x |-> r.x, p |-> r.p + 1], value |-> MTTemper(r.x[r.p + 1])]

\* rng_(): regenerate the words when all are used, then temper the next one.
MTNext(rng) ==
  MTTake(IF rng.p >= MT_N THEN [x |-> MTGenRand(rng.x), p |-> 0] ELSE rng)

(***************************************************************************)
(* std::uniform_int_distribution<std::size_t>(a, b) over a 32-bit          *)
(* generator, as libstdc++ computes it: multiply the draw by the range,    *)
(* keep the high word, redraw while the low word is below 2^32 mod range.  *)
(***************************************************************************)
\* One draw d scaled to [0, range): the product d * range has the result
\* in its high word; the draw is rejected when its low word is below
\* 2^32 mod range.
Downscale(d, range) ==
  LET c0        == d.value[2] * range
      c1        == d.value[1] * range + (c0 \div 65536)
      lowIsTiny == (c1 % 65536) = 0 /\ (c0 % 65536) < range
      threshold == ((65536 % range) * (65536 % range)) % range
  IN  [rng |-> d.rng, value |-> c1 \div 65536,
       rejected |-> lowIsTiny /\ (c0 % 65536) < threshold]

RECURSIVE UniformDraw(_, _)

\* The scaled draw t if it is not rejected, else another draw
UniformRetry(t, range) ==
  IF t.rejected THEN UniformDraw(t.rng, range)
  ELSE [rng |-> t.rng, value |-> t.value]

UniformDraw(rng, range) == UniformRetry(Downscale(MTNext(rng), range), range)

\* The draw d, of [0, b - a], moved to [a, b]
UniformShift(d, a) == [rng |-> d.rng, value |-> d.value + a]

UniformInt(rng, a, b) == UniformShift(UniformDraw(rng, b - a + 1), a)

(***************************************************************************)
(* std::size_t (64 bits) as four 16-bit limbs, least significant first     *)
(***************************************************************************)
\* the std::size_t of a natural n < 2^31
U64(n) == <<n % 65536, n \div 65536, 0, 0>>

\* the largest std::size_t, 2^64 - 1
SizeMax == <<65535, 65535, 65535, 65535>>

\* a + b in std::size_t: unsigned addition wraps modulo 2^64
Add64(a, b) ==
  LET s1 == a[1] + b[1]
      s2 == a[2] + b[2] + (s1 \div 65536)
      s3 == a[3] + b[3] + (s2 \div 65536)
      s4 == a[4] + b[4] + (s3 \div 65536)
  IN  <<s1 % 65536, s2 % 65536, s3 % 65536, s4 % 65536>>

\* a <= b in std::size_t
Le64(a, b) ==
  \/ a[4] < b[4]
  \/ a[4] = b[4] /\ a[3] < b[3]
  \/ a[4] = b[4] /\ a[3] = b[3] /\ a[2] < b[2]
  \/ a[4] = b[4] /\ a[3] = b[3] /\ a[2] = b[2] /\ a[1] <= b[1]

(***************************************************************************)
(* GameState.h                                                             *)
(***************************************************************************)
HEIGHT == 10
WIDTH == 17

\* struct Player, default-constructed: two empty vectors
NewPlayer == [scores |-> <<>>, current_round_scores_ |-> <<>>]

\* GameState::GameState(): the default member initializers and rng_.seed(0)
GameStateCtor ==
  [players_ |-> <<>>, total_rounds_ |-> 0, current_round_ |-> 0,
   rng_ |-> MTSeed(0)]

\* std::unordered_map::operator[]: the map after players_[player_name],
\* which inserts a value-initialized Player when the key is absent
MapIndex(players, player_name) ==
  IF player_name \in DOMAIN players THEN players
  ELSE (player_name :> NewPlayer) @@ players

(***************************************************************************)
(* GameState.cpp                                                           *)
(***************************************************************************)
\* grid[i][j].num_ = d, the value drawn for the next cell of the row
SetCell(row, d) == [rng |-> d.rng, row |-> Append(row, d.value)]

\* RowStep with the distribution built as dist(0, 5)
RowStep_ZeroBased(acc) == SetCell(acc.row, UniformInt(acc.rng, 0, 5))

\* grid[i][j].num_ = dist(rng_), with dist(1, 5), for the next j of row i
RowStep(acc) == SetCell(acc.row, UniformInt(acc.rng, 1, 5))

\* for (j = 0; j < WIDTH; ++j) ...
RECURSIVE FillRow(_)
FillRow(acc) ==
  IF Len(acc.row) = WIDTH THEN acc ELSE FillRow(RowStep(acc))

\* the filled row r as the next row of the grid
SetRow(grid, r) == [rng |-> r.rng, grid |-> Append(grid, r.row)]

\* row i filled, from the generator as the rows before it left it
GridStep(acc) == SetRow(acc.grid, FillRow([rng |-> acc.rng, row |-> <<>>]))

\* for (i = 0; i < HEIGHT; ++i) ...
RECURSIVE FillGrid(_)
FillGrid(acc) ==
  IF Len(acc.grid) = HEIGHT THEN acc ELSE FillGrid(GridStep(acc))

\* StartRound opening the round at the previous total: push_back(scores.back())
StartRound_CarryTotal(g, filled) ==
  [gs   |-> [g EXCEPT
               !.rng_ = filled.rng,
               !.current_round_ = @ + 1,
               !.players_ =
                  [n \in DOMAIN @ |->
                     [scores |->
                        Append(@[n].scores,
                               IF @[n].scores = <<>> THEN U64(0)
                               ELSE @[n].scores[Len(@[n].scores)]),
                      current_round_scores_ |-> <<>>]]],
   grid |-> filled.grid]

\* StartRound with total_rounds_++ beside current_round_++
StartRound_CountTotal(g, filled) ==
  [gs   |-> [g EXCEPT
               !.rng_ = filled.rng,
               !.current_round_ = @ + 1,
               !.total_rounds_ = @ + 1,
               !.players_ =
                  [n \in DOMAIN @ |->
                     [scores |-> Append(@[n].scores, U64(0)),
                      current_round_scores_ |-> <<>>]]],
   grid |-> filled.grid]

\* StartRound with current_round_++ only when there are players
StartRound_CountIfPlayers(g, filled) ==
  [gs   |-> [g EXCEPT
               !.rng_ = filled.rng,
               !.current_round_ = IF DOMAIN g.players_ = {} THEN @ ELSE @ + 1,
               !.players_ =
                  [n \in DOMAIN @ |->
                     [scores |-> Append(@[n].scores, U64(0)),
                      current_round_scores_ |-> <<>>]]],
   grid |-> filled.grid]

\* StartRound without current_round_scores_.clear()
StartRound_KeepDeltas(g, filled) ==
  [gs   |-> [g EXCEPT
               !.rng_ = filled.rng,
               !.current_round_ = @ + 1,
               !.players_ =
                  [n \in DOMAIN @ |->
                     [@[n] EXCEPT !.scores = Append(@, U64(0))]]],
   grid |-> filled.grid]

\* The rest of InitRound once the grid is filled: current_round_++, then for
\* each player scores.push_back(0) and current_round_scores_.clear(); the
\* object after the call and the grid returned.
StartRound(g, filled) ==
  [gs   |-> [g EXCEPT
               !.rng_ = filled.rng,
               !.current_round_ = @ + 1,
               !.players_ =
                  [n \in DOMAIN @ |->
                     [scores |-> Append(@[n].scores, U64(0)),
                      current_round_scores_ |-> <<>>]]],
   grid |-> filled.grid]

\* InitRound with rng_.seed(0) moved from the constructor into the call
InitRound_Reseed(g) ==
  StartRound(g, FillGrid([rng |-> MTSeed(0), grid |-> <<>>]))

\* grid_t GameState::InitRound()
InitRound(g) == StartRound(g, FillGrid([rng |-> g.rng_, grid |-> <<>>]))

\* GetOrAddPlayer giving a new player one 0 for each round already started
GetOrAddPlayer_BackFill(g, player_name) ==
  [g EXCEPT !.players_ =
     IF player_name \in DOMAIN @ THEN @
     ELSE (player_name :>
             [scores |-> [i \in 1..g.current_round_ |-> U64(0)],
              current_round_scores_ |-> <<>>]) @@ @]

\* GetOrAddPlayer assigning a fresh Player to the key whether present or not
GetOrAddPlayer_Reset(g, player_name) ==
  [g EXCEPT !.players_ = (player_name :> NewPlayer) @@ @]

\* Player &GameState::GetOrAddPlayer(player_name)
GetOrAddPlayer(g, player_name) ==
  [g EXCEPT !.players_ = MapIndex(@, player_name)]

\* What scores.back() += delta does on an empty vector is undefined: the
\* process may die there, or the write may land outside the vector and the
\* call go on.
UBOutcomes == {"abort", "stray_write"}

\* UpdatePlayerScore recording delta in every player's current_round_scores_
UpdatePlayerScore_AllPlayers(g, player_name, delta, ub) ==
  LET players == MapIndex(g.players_, player_name)
      scores  == players[player_name].scores
      empty   == scores = <<>>
      summed  == IF empty THEN scores
                 ELSE [scores EXCEPT ![Len(scores)] = Add64(@, delta)]
  IN  IF empty /\ ub = "abort"
        THEN [gs |-> [g EXCEPT !.players_ = players],
              outcome |-> "aborted", ub |-> TRUE]
        ELSE [gs |-> [g EXCEPT !.players_ =
                        [n \in DOMAIN players |->
                           [scores |-> IF n = player_name THEN summed
                                       ELSE players[n].scores,
                            current_round_scores_ |->
                              Append(players[n].current_round_scores_,
                                     delta)]]],
              outcome |-> "returned", ub |-> empty]

\* UpdatePlayerScore with scores.front() += delta in place of scores.back()
UpdatePlayerScore_Front(g, player_name, delta, ub) ==
  LET players == MapIndex(g.players_, player_name)
      scores  == players[player_name].scores
      empty   == scores = <<>>
      summed  == IF empty THEN scores
                 ELSE [scores EXCEPT ![1] = Add64(@, delta)]
  IN  IF empty /\ ub = "abort"
        THEN [gs |-> [g EXCEPT !.players_ = players],
              outcome |-> "aborted", ub |-> TRUE]
        ELSE [gs |-> [g EXCEPT !.players_ =
                        [players EXCEPT ![player_name] =
                           [scores |-> summed,
                            current_round_scores_ |->
                              Append(@.current_round_scores_, delta)]]],
              outcome |-> "returned", ub |-> empty]

\* UpdatePlayerScore inserting delta at the front of current_round_scores_
UpdatePlayerScore_Prepend(g, player_name, delta, ub) ==
  LET players == MapIndex(g.players_, player_name)
      scores  == players[player_name].scores
      empty   == scores = <<>>
      summed  == IF empty THEN scores
                 ELSE [scores EXCEPT ![Len(scores)] = Add64(@, delta)]
  IN  IF empty /\ ub = "abort"
        THEN [gs |-> [g EXCEPT !.players_ = players],
              outcome |-> "aborted", ub |-> TRUE]
        ELSE [gs |-> [g EXCEPT !.players_ =
                        [players EXCEPT ![player_name] =
                           [scores |-> summed,
                            current_round_scores_ |->
                              <<delta>> \o @.current_round_scores_]]],
              outcome |-> "returned", ub |-> empty]

\* UpdatePlayerScore with scores.back() = delta in place of +=
UpdatePlayerScore_Assign(g, player_name, delta, ub) ==
  LET players == MapIndex(g.players_, player_name)
      scores  == players[player_name].scores
      empty   == scores = <<>>
      summed  == IF empty THEN scores
                 ELSE [scores EXCEPT ![Len(scores)] = delta]
  IN  IF empty /\ ub = "abort"
        THEN [gs |-> [g EXCEPT !.players_ = players],
              outcome |-> "aborted", ub |-> TRUE]
        ELSE [gs |-> [g EXCEPT !.players_ =
                        [players EXCEPT ![player_name] =
                           [scores |-> summed,
                            current_round_scores_ |->
                              Append(@.current_round_scores_, delta)]]],
              outcome |-> "returned", ub |-> empty]

\* void GameState::UpdatePlayerScore(player_name, delta); ub is the outcome
\* of the undefined behaviour, read only when scores is empty.
UpdatePlayerScore(g, player_name, delta, ub) ==
  LET players == MapIndex(g.players_, player_name)
      scores  == players[player_name].scores
      empty   == scores = <<>>
      summed  == IF empty THEN scores
                 ELSE [scores EXCEPT ![Len(scores)] = Add64(@, delta)]
  IN  IF empty /\ ub = "abort"
        THEN [gs |-> [g EXCEPT !.players_ = players],
              outcome |-> "aborted", ub |-> TRUE]
        ELSE [gs |-> [g EXCEPT !.players_ =
                        [players EXCEPT ![player_name] =
                           [scores |-> summed,
                            current_round_scores_ |->
                              Append(@.current_round_scores_, delta)]]],
              outcome |-> "returned", ub |-> empty]

(***************************************************************************)
(* The process: the GameState objects it has constructed (a sequence, in   *)
(* construction order) and the caller driving them.  Every call is made on *)
(* each object in turn, so that objects constructed alike receive the same *)
(* sequence of calls.  When a call aborts the process, nothing runs after  *)
(* it.                                                                     *)
(***************************************************************************)
VARIABLES
  gs,          \* object -> the GameState
  ret,         \* object -> how its last call ended, and whether it executed
               \*           scores.back() on an empty vector
  board,       \* object -> the grid its last InitRound returned to the caller
  call,        \* the last call made: [op, player_name, delta]
  ncalls,      \* the number of calls made
  inits,       \* object -> the number of InitRound calls made on it
  born,        \* object -> player name -> inits when the player was created
  onScenario,  \* the calls made so far are the first ncalls of Scenario
  passed,      \* object -> player name -> the deltas UpdatePlayerScore was
               \*           called with for the player, in call order, since
               \*           the last InitRound
  noUB         \* object -> no call on it has executed scores.back() on an
               \*           empty vector

vars ==
  <<gs, ret, board, call, ncalls, inits, born, onScenario, passed, noUB>>

\* The number of calls the caller makes: on a process with one GameState,
\* and on a process with two.
MaxCalls == 4
MaxCallsPair == 3

Names == {"p1", "bob"}

\* The <<player_name, delta>> that UpdatePlayerScore is called with
Updates ==
  { <<"p1", U64(10)>>, <<"p1", U64(5)>>,
    <<"bob", U64(5)>>, <<"bob", U64(3)>>, <<"bob", SizeMax>> }

NoCall == [op |-> "none", player_name |-> "", delta |-> U64(0)]
InitRoundCall == [op |-> "InitRound", player_name |-> "", delta |-> U64(0)]
GetOrAddPlayerCall(n) ==
  [op |-> "GetOrAddPlayer", player_name |-> n, delta |-> U64(0)]
UpdatePlayerScoreCall(n, d) ==
  [op |-> "UpdatePlayerScore", player_name |-> n, delta |-> d]

\* The scenario of the specification's last testable property.
Scenario ==
  << InitRoundCall,
     GetOrAddPlayerCall("p1"),
     UpdatePlayerScoreCall("p1", U64(10)),
     UpdatePlayerScoreCall("p1", U64(5)),
     InitRoundCall >>

Objects == 1..Len(gs)

CallBound == IF Len(gs) = 1 THEN MaxCalls ELSE MaxCallsPair

\* no call has aborted the process
Running == \A m \in Objects : ret[m].outcome # "aborted"

\* scores.back() of call c on object m would be taken on an empty vector
BackOnEmpty(m, c) ==
  /\ c.op = "UpdatePlayerScore"
  /\ MapIndex(gs[m].players_, c.player_name)[c.player_name].scores = <<>>

\* One call on one object: the object after it, the grid returned (if any),
\* how the call ended.
Apply(g, c, ub) ==
  CASE c.op = "InitRound" ->
         LET r == InitRound(g)
         IN  [gs |-> r.gs, grid |-> r.grid, outcome |-> "returned", ub |-> FALSE]
    [] c.op = "GetOrAddPlayer" ->
         [gs |-> GetOrAddPlayer(g, c.player_name), grid |-> <<>>,
          outcome |-> "returned", ub |-> FALSE]
    [] c.op = "UpdatePlayerScore" ->
         LET r == UpdatePlayerScore(g, c.player_name, c.delta, ub)
         IN  [gs |-> r.gs, grid |-> <<>>, outcome |-> r.outcome, ub |-> r.ub]

Construct(n) ==
  /\ gs = [m \in 1..n |-> GameStateCtor]
  /\ ret = [m \in 1..n |-> [outcome |-> "none", ub |-> FALSE]]
  /\ board = [m \in 1..n |-> <<>>]
  /\ call = NoCall
  /\ ncalls = 0
  /\ inits = [m \in 1..n |-> 0]
  /\ born = [m \in 1..n |-> <<>>]
  /\ onScenario = TRUE
  /\ passed = [m \in 1..n |-> <<>>]
  /\ noUB = [m \in 1..n |-> TRUE]

\* Object m is reached by a call unless the call aborted on an earlier object.
Reached(m, ub) == \A k \in 1..(m - 1) : ub[k] # "abort"

\* Call c made on each object in turn: per object, what Apply gives.
\* (Concatenation with <<>> makes the result an explicit tuple.)
CallAll(c, ub) ==
  [m \in Objects |->
     IF Reached(m, ub) THEN Apply(gs[m], c, ub[m])
     ELSE [gs |-> gs[m], grid |-> <<>>, outcome |-> "not_called",
           ub |-> FALSE]] \o <<>>

\* The deltas passed for player n since the last InitRound, after call c,
\* where seq is what they were before it and made says whether the call was
\* made on the object.
PassedAfter(seq, n, c, made) ==
  IF ~made THEN seq
  ELSE IF c.op = "InitRound" THEN <<>>
  ELSE IF c.op = "UpdatePlayerScore" /\ c.player_name = n
         THEN Append(seq, c.delta)
  ELSE seq

\* the caller has calls left to make, in a process that is still running
CanCall == ncalls < CallBound /\ Running

\* The caller makes call c on every object.  ub[m] is the outcome of the
\* undefined behaviour on object m, "none" where the call executes none.
Drive(c) ==
  /\ \E ub \in [Objects -> UBOutcomes \cup {"none"}] :
       /\ \A m \in Objects :
            (ub[m] # "none") <=> (BackOnEmpty(m, c) /\ Reached(m, ub))
       /\ \E res \in {CallAll(c, ub)} :
            /\ gs' = [m \in Objects |-> res[m].gs]
            /\ ret' = [m \in Objects |->
                         [outcome |-> res[m].outcome, ub |-> res[m].ub]]
            /\ board' = [m \in Objects |->
                           IF Reached(m, ub) /\ c.op = "InitRound"
                             THEN res[m].grid ELSE board[m]]
            /\ inits' = [m \in Objects |->
                           IF Reached(m, ub) /\ c.op = "InitRound"
                             THEN inits[m] + 1 ELSE inits[m]]
            /\ passed' = [m \in Objects |->
                            [n \in DOMAIN res[m].gs.players_ |->
                               PassedAfter(
                                 IF n \in DOMAIN passed[m] THEN passed[m][n]
                                 ELSE <<>>,
                                 n, c, Reached(m, ub))]]
            /\ noUB' = [m \in Objects |-> noUB[m] /\ ub[m] = "none"]
  /\ call' = c
  /\ ncalls' = ncalls + 1
  /\ born' = [m \in Objects |->
                [n \in DOMAIN gs'[m].players_ |->
                   IF n \in DOMAIN born[m] THEN born[m][n] ELSE inits[m]]]
  /\ onScenario' = (/\ onScenario
                    /\ ncalls < Len(Scenario)
                    /\ c = Scenario[ncalls + 1])

CallInitRound ==
  /\ CanCall
  /\ Drive(InitRoundCall)

CallGetOrAddPlayer ==
  /\ CanCall
  /\ \E n \in Names : Drive(GetOrAddPlayerCall(n))

CallUpdatePlayerScore ==
  /\ CanCall
  /\ \E u \in Updates : Drive(UpdatePlayerScoreCall(u[1], u[2]))

Next == CallInitRound \/ CallGetOrAddPlayer \/ CallUpdatePlayerScore

\* a process with one GameState
Init == Construct(1)
Spec == Init /\ [][Next]_vars

\* a process with two GameStates constructed alike
InitPair == Construct(2)
SpecPair == InitPair /\ [][Next]_vars

(***************************************************************************)
(* Properties.  StartNewRound, GetOrCreatePlayer and RecordScore are the    *)
(* specification's names of InitRound, GetOrAddPlayer and UpdatePlayerScore.*)
(***************************************************************************)
\* the last entry of a non-empty sequence: scores.back()
Back(seq) == seq[Len(seq)]

\* call c was made on object m and came back to the caller
Returned(r) == r.outcome = "returned"

\* C1: in the scenario (fresh manager; StartNewRound; GetOrCreatePlayer("p1");
\* RecordScore("p1", 10); RecordScore("p1", 5)) the calls complete with
\* p1.current_round_scores_ = [10, 5] and p1.scores = [15], and a further
\* StartNewRound gives p1.scores = [15, 0] and p1.current_round_scores_ = [].
C1_ScenarioTotals ==
  \A m \in Objects :
    /\ (onScenario /\ ncalls = 4) =>
         /\ Returned(ret[m])
         /\ "p1" \in DOMAIN gs[m].players_
         /\ gs[m].players_["p1"].current_round_scores_ = <<U64(10), U64(5)>>
         /\ gs[m].players_["p1"].scores = <<U64(15)>>
    /\ (onScenario /\ ncalls = 5) =>
         /\ Returned(ret[m])
         /\ gs[m].players_["p1"].scores = <<U64(15), U64(0)>>
         /\ gs[m].players_["p1"].current_round_scores_ = <<>>

\* C1: the first four calls of the scenario have been made and have returned.
C1_ScenarioRun ==
  /\ onScenario
  /\ ncalls = 4
  /\ \A m \in Objects : Returned(ret[m])

\* C2: RecordScore with a player name not yet in the session creates the
\* player and completes, without taking the last entry of an empty scores
\* sequence, whether or not a round has started.
C2_NewNameCompletes ==
  [][\A m \in Objects :
       ( /\ call'.op = "UpdatePlayerScore"
         /\ ret'[m].outcome # "not_called"
         /\ call'.player_name \notin DOMAIN gs[m].players_ )
       => ( /\ Returned(ret'[m])
            /\ ~ret'[m].ub
            /\ call'.player_name \in DOMAIN gs'[m].players_ )]_vars

\* C2: StartNewRound, then RecordScore with a name not in the session: the
\* call took the last entry of the empty scores of the player it created.
C2_NewNameCalled ==
  /\ ncalls = 2
  /\ call.op = "UpdatePlayerScore"
  /\ \E m \in Objects : inits[m] = 1 /\ ret[m].ub

\* C3: RecordScore before any round has started (current_round = 0) is
\* surfaced to the caller as an InvalidStateError, and changes no player's
\* scores or current_round_scores_.
C3_InvalidStateError ==
  [][\A m \in Objects :
       ( /\ call'.op = "UpdatePlayerScore"
         /\ ret'[m].outcome # "not_called"
         /\ gs[m].current_round_ = 0 )
       => ( /\ ret'[m].outcome = "InvalidStateError"
            /\ \A n \in DOMAIN gs[m].players_ :
                 gs'[m].players_[n] = gs[m].players_[n] )]_vars

\* C3: a RecordScore made before any round has returned to the caller with
\* the delta recorded.
C3_ToleratedBeforeRound ==
  /\ call.op = "UpdatePlayerScore"
  /\ \E m \in Objects :
       /\ gs[m].current_round_ = 0
       /\ Returned(ret[m])
       /\ gs[m].players_[call.player_name].current_round_scores_ # <<>>

\* C4: for every player, the length of scores is the number of StartNewRound
\* calls made since the player was created by GetOrCreatePlayer or
\* RecordScore: rounds before joining are not back-filled.
C4_ScoresLength ==
  \A m \in Objects :
    \A n \in DOMAIN gs[m].players_ :
      Len(gs[m].players_[n].scores) = inits[m] - born[m][n]

\* C4: a player created after the first StartNewRound, at the second
\* StartNewRound: scores has length 1.
C4_LateJoiner ==
  \E m \in Objects :
    \E n \in DOMAIN gs[m].players_ :
      /\ born[m][n] = 1
      /\ inits[m] = 2
      /\ Len(gs[m].players_[n].scores) = 1

\* C5: each StartNewRound appends exactly one 0 to the scores of every player
\* known at the call, leaving the earlier entries as they were, empties that
\* player's current_round_scores_, and neither adds nor removes players.
C5_InitRoundPlayers ==
  [][\A m \in Objects :
       (call'.op = "InitRound" /\ Returned(ret'[m]))
       => ( /\ DOMAIN gs'[m].players_ = DOMAIN gs[m].players_
            /\ \A n \in DOMAIN gs[m].players_ :
                 /\ gs'[m].players_[n].scores =
                      Append(gs[m].players_[n].scores, U64(0))
                 /\ gs'[m].players_[n].current_round_scores_ = <<>> )]_vars

\* C5: a StartNewRound has just closed a round in which a player had scored 5.
C5_RoundClosed ==
  /\ call.op = "InitRound"
  /\ \E m \in Objects :
       \E n \in DOMAIN gs[m].players_ :
         /\ gs[m].players_[n].scores = <<U64(5), U64(0)>>
         /\ gs[m].players_[n].current_round_scores_ = <<>>

\* C6: for a player whose scores is non-empty, RecordScore(name, delta) adds
\* delta to the last entry of scores, leaves the earlier entries and the length
\* of scores as they were, and appends delta to current_round_scores_.
C6_RecordScoreEffect ==
  [][\A m \in Objects :
       ( /\ call'.op = "UpdatePlayerScore"
         /\ Returned(ret'[m])
         /\ call'.player_name \in DOMAIN gs[m].players_
         /\ gs[m].players_[call'.player_name].scores # <<>> )
       => LET old == gs[m].players_[call'.player_name]
              new == gs'[m].players_[call'.player_name]
          IN  /\ Len(new.scores) = Len(old.scores)
              /\ \A i \in 1..(Len(old.scores) - 1) :
                   new.scores[i] = old.scores[i]
              /\ Back(new.scores) = Add64(Back(old.scores), call'.delta)
              /\ new.current_round_scores_ =
                   Append(old.current_round_scores_, call'.delta)]_vars

\* C6: RecordScore(bob, 5) then RecordScore(bob, 3) in bob's first round: the
\* deltas are [5, 3] and the round's total went from 0 to 8.
C6_BobFiveThree ==
  /\ call = UpdatePlayerScoreCall("bob", U64(3))
  /\ \E m \in Objects :
       /\ "bob" \in DOMAIN gs[m].players_
       /\ gs[m].players_["bob"].current_round_scores_ = <<U64(5), U64(3)>>
       /\ gs[m].players_["bob"].scores = <<U64(8)>>

\* C7: every grid StartNewRound returns, whatever calls came between, has
\* exactly HEIGHT (10) rows of WIDTH (17) cells, each cell in [1, 5].
C7_GridShape ==
  /\ HEIGHT = 10
  /\ WIDTH = 17
  /\ \A m \in Objects :
       inits[m] > 0 =>
         /\ Len(board[m]) = HEIGHT
         /\ \A i \in 1..HEIGHT :
              /\ Len(board[m][i]) = WIDTH
              /\ \A j \in 1..WIDTH : board[m][i][j] \in 1..5

\* C7: the grid of a third round, reached through other calls, holding both
\* a 1 and a 5.
C7_ThirdGrid ==
  \E m \in Objects :
    /\ inits[m] = 3
    /\ ncalls > 3
    /\ \E i \in 1..HEIGHT : \E j \in 1..WIDTH : board[m][i][j] = 1
    /\ \E i \in 1..HEIGHT : \E j \in 1..WIDTH : board[m][i][j] = 5

\* C8: two managers constructed alike (the same fixed seed) and driven with
\* the same calls return identical grids round for round, and the entropy
\* source is never reseeded: each grid is drawn from the generator as the
\* round before left it, and no other call touches the generator.
C8_SameGridsNoReseed ==
  [][\A m \in Objects :
       /\ \A k \in Objects : inits'[k] = inits'[m] => board'[k] = board'[m]
       /\ IF call'.op = "InitRound" /\ Returned(ret'[m])
            THEN \E f \in {FillGrid([rng |-> gs[m].rng_, grid |-> <<>>])} :
                   /\ board'[m] = f.grid
                   /\ gs'[m].rng_ = f.rng
            ELSE /\ board'[m] = board[m]
                 /\ gs'[m].rng_ = gs[m].rng_]_vars

\* C8: both managers in their second round, with another call in between:
\* they hold the same grid, which is not the grid of a first round.
C8_SecondRoundOfBoth ==
  /\ Len(gs) = 2
  /\ ncalls = 3
  /\ call.op = "InitRound"
  /\ inits[1] = 2
  /\ inits[2] = 2
  /\ board[1] = board[2]
  /\ board[1] # InitRound(GameStateCtor).grid

\* C9: GetOrCreatePlayer(name) inserts a player with empty scores and empty
\* current_round_scores_ when the name is unknown and leaves a known player as
\* it is; every other player, current_round and total_rounds are unchanged;
\* calling it again changes nothing.
C9_GetOrCreateFrame ==
  [][\A m \in Objects :
       (call'.op = "GetOrAddPlayer" /\ Returned(ret'[m]))
       => ( /\ DOMAIN gs'[m].players_ =
                 DOMAIN gs[m].players_ \cup {call'.player_name}
            /\ call'.player_name \notin DOMAIN gs[m].players_ =>
                 gs'[m].players_[call'.player_name] =
                   [scores |-> <<>>, current_round_scores_ |-> <<>>]
            /\ \A n \in DOMAIN gs[m].players_ :
                 gs'[m].players_[n] = gs[m].players_[n]
            /\ gs'[m].current_round_ = gs[m].current_round_
            /\ gs'[m].total_rounds_ = gs[m].total_rounds_
            /\ GetOrAddPlayer(gs'[m], call'.player_name) = gs'[m] )]_vars

\* C9: GetOrCreatePlayer has just been called on a known player that has a
\* round's total, with another player in the session.
C9_KnownPlayerLookedUp ==
  /\ call.op = "GetOrAddPlayer"
  /\ \E m \in Objects :
       /\ DOMAIN gs[m].players_ = Names
       /\ gs[m].players_[call.player_name].scores # <<>>

\* C10: within a round the last entry of scores never decreases: after any
\* RecordScore(name, delta) the new last entry is greater than or equal to the
\* old one, also when the 64-bit addition exceeds the maximum value.
C10_BackMonotone ==
  [][\A m \in Objects :
       ( /\ call'.op = "UpdatePlayerScore"
         /\ Returned(ret'[m])
         /\ call'.player_name \in DOMAIN gs[m].players_
         /\ gs[m].players_[call'.player_name].scores # <<>> )
       => Le64(Back(gs[m].players_[call'.player_name].scores),
               Back(gs'[m].players_[call'.player_name].scores))]_vars

\* C10: a player whose round holds the deltas 5 and 2^64 - 1 has the total 4.
C10_Wrapped ==
  \E m \in Objects :
    /\ "bob" \in DOMAIN gs[m].players_
    /\ gs[m].players_["bob"].current_round_scores_ = <<U64(5), SizeMax>>
    /\ gs[m].players_["bob"].scores = <<U64(4)>>

\* C11: in every state of a running process, each player's
\* current_round_scores_ is exactly the sequence, in call order, of the deltas
\* passed to RecordScore for that player since the most recent StartNewRound
\* (or since the player's creation if no round has started after it).
C11_DeltasSinceRound ==
  \A m \in Objects :
    ret[m].outcome # "aborted" =>
      /\ DOMAIN passed[m] = DOMAIN gs[m].players_
      /\ \A n \in DOMAIN gs[m].players_ :
           gs[m].players_[n].current_round_scores_ = passed[m][n]

\* C11: bob, known before the round started, has been passed 3 and then 5 in
\* it, with no call ever made on an empty scores.
C11_ThreeThenFive ==
  \E m \in Objects :
    /\ noUB[m]
    /\ inits[m] = 1
    /\ "bob" \in DOMAIN gs[m].players_
    /\ passed[m]["bob"] = <<U64(3), U64(5)>>
    /\ gs[m].players_["bob"].current_round_scores_ = <<U64(3), U64(5)>>

\* C12: total_rounds is never changed by any operation: in every reachable
\* state it is its initial value 0, however many rounds have been started.
C12_TotalRoundsZero ==
  \A m \in Objects : gs[m].total_rounds_ = 0

\* C12: three rounds started, with a player in the session, and total_rounds
\* still 0.
C12_ThreeRoundsIn ==
  \E m \in Objects :
    /\ inits[m] = 3
    /\ DOMAIN gs[m].players_ # {}
    /\ gs[m].total_rounds_ = 0

\* C13: current_round starts at 0, grows by exactly one with each
\* StartNewRound and is left as it is by GetOrCreatePlayer and RecordScore:
\* in every reachable state it is the number of rounds started, and it never
\* decreases.
C13_CurrentRoundCounts ==
  [][\A m \in Objects :
       /\ gs[m].current_round_ = inits[m]
       /\ gs'[m].current_round_ = inits'[m]
       /\ gs'[m].current_round_ >= gs[m].current_round_
       /\ gs'[m].current_round_ =
            IF call'.op = "InitRound" /\ Returned(ret'[m])
              THEN gs[m].current_round_ + 1
              ELSE gs[m].current_round_]_vars

\* C13: two rounds started and then a RecordScore that returned: current_round
\* is 2.
C13_TwoRoundsThenScore ==
  /\ call.op = "UpdatePlayerScore"
  /\ \E m \in Objects :
       /\ Returned(ret[m])
       /\ ~ret[m].ub
       /\ inits[m] = 2
       /\ gs[m].current_round_ = 2

\* the sum of a sequence of std::size_t values, modulo 2^64
RECURSIVE Sum64(_)
Sum64(seq) ==
  IF seq = <<>> THEN U64(0)
  ELSE Add64(Sum64(SubSeq(seq, 1, Len(seq) - 1)), Back(seq))

\* C14: as long as RecordScore has only been called for players whose scores
\* is non-empty, every player with non-empty scores has scores.back() equal
\* to the sum of current_round_scores_ modulo 2^64.
C14_BackIsSumOfDeltas ==
  \A m \in Objects :
    noUB[m] =>
      \A n \in DOMAIN gs[m].players_ :
        gs[m].players_[n].scores # <<>> =>
          Back(gs[m].players_[n].scores) =
            Sum64(gs[m].players_[n].current_round_scores_)

\* C14: bob's round holds the deltas 2^64 - 1 and 3, which sum to 2 modulo
\* 2^64, every RecordScore so far having found scores non-empty.
C14_SumWraps ==
  \E m \in Objects :
    /\ noUB[m]
    /\ "bob" \in DOMAIN gs[m].players_
    /\ gs[m].players_["bob"].current_round_scores_ = <<SizeMax, U64(3)>>
    /\ gs[m].players_["bob"].scores = <<U64(2)>>

\* C15: closed-round totals are immutable: no operation changes an entry of a
\* player's scores other than the last one, scores never shrinks (each
\* state's scores extends the previous state's, its last entry apart), and no
\* operation removes a player.
C15_ClosedTotalsKept ==
  [][\A m \in Objects :
       /\ DOMAIN gs[m].players_ \subseteq DOMAIN gs'[m].players_
       /\ \A n \in DOMAIN gs[m].players_ :
            /\ Len(gs'[m].players_[n].scores) >= Len(gs[m].players_[n].scores)
            /\ \A i \in 1..(Len(gs[m].players_[n].scores) - 1) :
                 gs'[m].players_[n].scores[i] = gs[m].players_[n].scores[i]]_vars

\* C15: a RecordScore of 5 in a player's second round, the first round's
\* total of 0 being closed.
C15_ScoreAfterClosedRound ==
  /\ call.op = "UpdatePlayerScore"
  /\ \E m \in Objects :
       /\ Returned(ret[m])
       /\ call.player_name \in DOMAIN gs[m].players_
       /\ gs[m].players_[call.player_name].scores = <<U64(0), U64(5)>>

\* the grids of k consecutive StartNewRound calls on g, nothing in between
RECURSIVE RoundsFrom(_, _)

\* the grid of the round r just started, then those of the k - 1 rounds after
GridsThen(r, k) == <<r.grid>> \o RoundsFrom(r.gs, k - 1)

RoundsFrom(g, k) == IF k = 0 THEN <<>> ELSE GridsThen(InitRound(g), k)

\* the grids a new manager returns when only StartNewRound is ever called
RoundsAlone == RoundsFrom(GameStateCtor, MaxCalls)

\* C16: RecordScore(name, delta) and GetOrCreatePlayer(name) leave every
\* other player's scores and current_round_scores_, current_round and the
\* entropy source unchanged; so the grid the k-th StartNewRound returns is the
\* same whatever player operations come between the rounds.
C16_PlayerCallsFrame ==
  [][\A m \in Objects :
       /\ ( /\ call'.op \in {"UpdatePlayerScore", "GetOrAddPlayer"}
            /\ ret'[m].outcome # "not_called" )
          => ( /\ \A n \in DOMAIN gs[m].players_ \ {call'.player_name} :
                    /\ n \in DOMAIN gs'[m].players_
                    /\ gs'[m].players_[n] = gs[m].players_[n]
               /\ gs'[m].current_round_ = gs[m].current_round_
               /\ gs'[m].rng_ = gs[m].rng_ )
       /\ inits'[m] > 0 => board'[m] = RoundsAlone[inits'[m]]]_vars

\* C16: a second round started after a GetOrCreatePlayer before the first
\* round and a RecordScore of 10 during it.
C16_RoundAfterPlayerCalls ==
  /\ call.op = "InitRound"
  /\ ncalls = 4
  /\ \E m \in Objects :
       /\ noUB[m]
       /\ inits[m] = 2
       /\ "p1" \in DOMAIN gs[m].players_
       /\ gs[m].players_["p1"].scores = <<U64(10), U64(0)>>
       /\ board[m] = RoundsAlone[2]

====
